---- MODULE Spec2Model ----
(***************************************************************************)
(* Model of PDFProcessor (src/pdf_processor.py): rasterize every page of   *)
(* every input PDF, optionally invert its colours, lay the bitmaps out     *)
(* one per page (A4) or six per sheet (landscape A4, 2 columns x 3 rows),  *)
(* and return one document for the whole batch or one per input file.      *)
(*                                                                         *)
(* Lengths are kept exact: reportlab's A4 is (210 mm, 297 mm) with         *)
(* 1 mm = 72/25.4 pt, so every coordinate the code computes is a multiple  *)
(* of 1/254 pt.  Coordinates and target rectangles are integers in that    *)
(* unit; bitmap widths and heights are integers (pixels, drawn as points). *)
(* The code computes the scale in floating point; for every bitmap size    *)
(* and rectangle used here the exact products are at least 1/(254*3368)    *)
(* away from an integer, so int() of the float equals the exact floor.     *)
(***************************************************************************)
EXTENDS Integers, Sequences, FiniteSets, TLC

VARIABLES
    pc,               \* position in process_pdfs
    pdf_paths,        \* the input documents, in input order
    invert_colors, merge_files, layout_3x2,
    doc_i,            \* index of the document the rasterization loop is at
    page_num,         \* next page of that document
    handles,          \* document handles that are open
    all_pages,        \* the combined bitmap sequence
    page_groups,      \* the groups handed to create_3x2_landscape_pdf
    grouped,          \* the sequence page_groups was sliced from
    pages_per_file, start_idx,
    file_pages_list,  \* the bitmaps of the unit being composed
    pdf_data,         \* what the composer returned for that unit
    result_pdfs,
    result,           \* the list process_pdfs returned
    failures,         \* which unrecoverable failures happened in this run
    degraded,         \* how many inversions fell back to the original
    fn_pc, fn_image, fn_box, fn_out, fn_out2,  \* calls of the pure functions
    app_pc,           \* position in the Process handler of app.main
    uploaded_files,   \* the uploads, in upload order
    upload_i,         \* index of the upload the saving loop is at
    temp_files,       \* names of the temporary files the handler recorded
    disk,             \* temporary files that exist
    app_exit,         \* the path on which the handler ended
    processed_pdfs    \* st.session_state.processed_pdfs

vars == << pc, pdf_paths, invert_colors, merge_files, layout_3x2, doc_i,
           page_num, handles, all_pages, page_groups, grouped, pages_per_file,
           start_idx, file_pages_list, pdf_data, result_pdfs, result,
           failures, degraded, fn_pc, fn_image, fn_box, fn_out, fn_out2,
           app_pc, uploaded_files, upload_i, temp_files, disk, app_exit,
           processed_pdfs >>

pipeVars == << pc, pdf_paths, invert_colors, merge_files, layout_3x2, doc_i,
               page_num, handles, all_pages, page_groups, grouped, pages_per_file,
               start_idx, file_pages_list, pdf_data, result_pdfs, result,
               failures, degraded >>

fnVars == << fn_pc, fn_image, fn_box, fn_out, fn_out2 >>

appVars == << app_pc, uploaded_files, upload_i, temp_files, disk, app_exit,
              processed_pdfs >>

----------------------------------------------------------------------------
(* Bounds of the model *)

MaxDocs == 2
MaxTotalPages == 7
MaxDegraded == 1

(* Pixel sizes of rasterized pages: an A4 page at Zoom 4, and a page 0.25 pt
   wide and 250 pt high at Zoom 4. *)
PageSizes == { <<2381, 3368>>, <<1, 1000>> }

----------------------------------------------------------------------------
(* Geometry, in units of 1/254 pt *)

Den == 254
A4_width == 151200
A4_height == 213840
cols == 2
rows == 3
grid_margin == 10
page_margin == 20

Min(a, b) == IF a <= b THEN a ELSE b

RECURSIVE Flatten(_)
Flatten(ss) == IF ss = << >> THEN << >> ELSE Head(ss) \o Flatten(Tail(ss))

RECURSIVE SumSeq(_)
SumSeq(s) == IF s = << >> THEN 0 ELSE Head(s) + SumSeq(Tail(s))

(* Python's s[a:b] for 0 <= a <= b *)
Slice(s, a, b) == SubSeq(s, Min(a, Len(s)) + 1, Min(b, Len(s)))

----------------------------------------------------------------------------
(* Bitmaps *)

NoImage == [doc |-> 0, page |-> 0, width |-> 0, height |-> 0,
            mode |-> "RGB", pixels |-> << >>]

(* page.get_pixmap(...).tobytes("png") opened by PIL: an RGB bitmap of the
   page, rendered on a white background *)
get_pixmap(d, p, size) ==
    [doc |-> d, page |-> p, width |-> size[1], height |-> size[2],
     mode |-> "RGB", pixels |-> << <<255, 255, 255>> >>]

(* Image.convert('RGB'): grey becomes (v, v, v), alpha is dropped *)
convert_RGB(image) ==
    [image EXCEPT !.mode = "RGB",
                  !.pixels = [k \in 1..Len(image.pixels) |->
                                 IF image.mode = "L"
                                 THEN << image.pixels[k][1], image.pixels[k][1],
                                         image.pixels[k][1] >>
                                 ELSE SubSeq(image.pixels[k], 1, 3)]]

(* a lookup table that is off by one: 256 - i *)
ImageOps_invert_256(image) ==
    [image EXCEPT !.pixels = [k \in 1..Len(image.pixels) |->
                                 [c \in 1..Len(image.pixels[k]) |->
                                     256 - image.pixels[k][c]]]]

(* ImageOps.invert: a new image through the lookup table 255 - i *)
ImageOps_invert(image) ==
    [image EXCEPT !.pixels = [k \in 1..Len(image.pixels) |->
                                 [c \in 1..Len(image.pixels[k]) |->
                                     255 - image.pixels[k][c]]]]

(* invert_image_colors; raised = an exception inside the try block, which
   makes the handler return the image it was given *)
invert_image_colors(image, raised) ==
    IF raised THEN image
    ELSE ImageOps_invert(IF image.mode # "RGB" THEN convert_RGB(image) ELSE image)

(* resize_image_to_fit.  max_width and max_height are in 1/254 pt.
   scale_factor is the smaller of max_width/width and max_height/height;
   Image.resize raises ValueError for a size below 1, and the handler then
   returns the image it was given. *)
resize_image_to_fit(image, max_width, max_height) ==
    LET by_width   == max_width * image.height <= max_height * image.width
        new_width  == IF by_width
                      THEN max_width \div Den
                      ELSE (image.width * max_height) \div (image.height * Den)
        new_height == IF by_width
                      THEN (image.height * max_width) \div (image.width * Den)
                      ELSE max_height \div Den
    IN  IF new_width < 1 \/ new_height < 1
        THEN image
        ELSE [image EXCEPT !.width = new_width, !.height = new_height]

----------------------------------------------------------------------------
(* Page composers.  A document is the sequence of its pages, a page the
   sequence of the images drawn on it (drawImage: lower-left corner x, y). *)

None == [kind |-> "None", pages |-> << >>]

Truthy(data) == data.kind = "pdf"

(* the grid filled column by column instead of row by row *)
grid_draw_column_major(page_image, i) ==
    LET page_width  == A4_height
        page_height == A4_width
        cell_width  == page_width \div cols
        cell_height == page_height \div rows
        margin      == grid_margin * Den
        img_width   == cell_width - 2 * margin
        img_height  == cell_height - 2 * margin
        col == i \div rows
        row == i % rows
        x == col * cell_width + margin
        y == page_height - (row + 1) * cell_height + margin
        page_image_resized == resize_image_to_fit(page_image, img_width, img_height)
    IN  [image |-> page_image_resized, x |-> x, y |-> y,
         width |-> page_image_resized.width,
         height |-> page_image_resized.height]

grid_draw(page_image, i) ==
    LET page_width  == A4_height
        page_height == A4_width
        cell_width  == page_width \div cols
        cell_height == page_height \div rows
        margin      == grid_margin * Den
        img_width   == cell_width - 2 * margin
        img_height  == cell_height - 2 * margin
        col == i % cols
        row == i \div cols
        x == col * cell_width + margin
        y == page_height - (row + 1) * cell_height + margin
        page_image_resized == resize_image_to_fit(page_image, img_width, img_height)
    IN  [image |-> page_image_resized, x |-> x, y |-> y,
         width |-> page_image_resized.width,
         height |-> page_image_resized.height]

(* raised = an exception inside the try block (saving the PNG, drawImage,
   c.save()); the handler returns None *)
create_3x2_landscape_pdf(groups, raised) ==
    IF raised THEN None
    ELSE [kind |-> "pdf",
          pages |-> [g \in 1..Len(groups) |->
                       [k \in 1..Min(Len(groups[g]), 6) |->
                           grid_draw(groups[g][k], k - 1)]]]

page_draw(page_image) ==
    LET page_width  == A4_width
        page_height == A4_height
        margin      == page_margin * Den
        max_width   == page_width - 2 * margin
        max_height  == page_height - 2 * margin
        resized_image == resize_image_to_fit(page_image, max_width, max_height)
        x == (page_width - resized_image.width * Den) \div 2
        y == (page_height - resized_image.height * Den) \div 2
    IN  [image |-> resized_image, x |-> x, y |-> y,
         width |-> resized_image.width, height |-> resized_image.height]

create_original_layout_pdf(pages, raised) ==
    IF raised THEN None
    ELSE [kind |-> "pdf",
          pages |-> [k \in 1..Len(pages) |-> << page_draw(pages[k]) >>]]

(* slices one short: s[i:i+5] for i in range(0, len(s), 6) *)
chunk6_short(s) ==
    [g \in 1..((Len(s) + 5) \div 6) |-> Slice(s, 6 * (g - 1), 6 * (g - 1) + 5)]

(* [s[i:i+6] for i in range(0, len(s), 6)] *)
chunk6(s) ==
    [g \in 1..((Len(s) + 5) \div 6) |-> Slice(s, 6 * (g - 1), 6 * (g - 1) + 6)]

(* return [pdf_data] if pdf_data else [] *)
merged_result(data) == IF Truthy(data) THEN << data >> ELSE << >>

(* a unit without pages is skipped as well *)
append_unit_nonempty(list, data) ==
    IF Truthy(data) /\ data.pages # << >> THEN Append(list, data) ELSE list

(* if pdf_data: result_pdfs.append(pdf_data) *)
append_unit(list, data) == IF Truthy(data) THEN Append(list, data) ELSE list

----------------------------------------------------------------------------
(* process_pdfs *)

Docs == [pages : 0..MaxTotalPages, size : PageSizes]

PathLists == UNION { [1..n -> Docs] : n \in 1..MaxDocs }

TotalPages(paths) == SumSeq([k \in 1..Len(paths) |-> paths[k].pages])

idle_fn == /\ fn_pc = "none" /\ UNCHANGED fnVars /\ UNCHANGED appVars

(* before any click: session_state.processed_pdfs = [] *)
InitAppIdle ==
    /\ app_pc = "idle"
    /\ uploaded_files = << >>
    /\ upload_i = 0
    /\ temp_files = << >>
    /\ disk = {}
    /\ app_exit = "none"
    /\ processed_pdfs = << >>

InitPipeIdle ==
    /\ pc = "idle"
    /\ pdf_paths = << >>
    /\ invert_colors = TRUE /\ merge_files = TRUE /\ layout_3x2 = TRUE
    /\ doc_i = 0 /\ page_num = 0
    /\ handles = {}
    /\ all_pages = << >>
    /\ page_groups = << >>
    /\ grouped = << >>
    /\ pages_per_file = << >>
    /\ start_idx = 0
    /\ file_pages_list = << >>
    /\ pdf_data = None
    /\ result_pdfs = << >>
    /\ result = << >>
    /\ failures = {}
    /\ degraded = 0

Init ==
    /\ InitPipeIdle
    /\ InitAppIdle
    /\ fn_pc = "none" /\ fn_image = NoImage /\ fn_box = <<0, 0>>
    /\ fn_out = NoImage /\ fn_out2 = NoImage

(* the call: processed_pdfs = [], all_pages = [] *)
process_pdfs ==
    /\ pc = "idle"
    /\ \E paths \in PathLists, inv \in BOOLEAN, merge \in BOOLEAN, grid \in BOOLEAN :
          /\ TotalPages(paths) <= MaxTotalPages
          /\ pdf_paths' = paths
          /\ invert_colors' = inv
          /\ merge_files' = merge
          /\ layout_3x2' = grid
    /\ all_pages' = << >>
    /\ doc_i' = 1
    /\ pc' = "open"
    /\ UNCHANGED << page_num, handles, page_groups, grouped, pages_per_file,
                    start_idx, file_pages_list, pdf_data, result_pdfs, result,
                    failures, degraded >>
    /\ idle_fn

(* except Exception: return [] *)
handler(kind) ==
    /\ failures' = failures \cup {kind}
    /\ result' = << >>
    /\ pc' = "done"

(* doc = fitz.open(pdf_path) *)
open_doc ==
    /\ pc = "open"
    /\ handles' = handles \cup { [doc |-> doc_i, use |-> "rasterize"] }
    /\ page_num' = 0
    /\ pc' = "page"
    /\ UNCHANGED << pdf_paths, invert_colors, merge_files, layout_3x2, doc_i,
                    all_pages, page_groups, grouped, pages_per_file, start_idx,
                    file_pages_list, pdf_data, result_pdfs, result, failures,
                    degraded >>
    /\ idle_fn

open_doc_raises ==
    /\ pc = "open"
    /\ handler("open")
    /\ UNCHANGED << pdf_paths, invert_colors, merge_files, layout_3x2, doc_i,
                    page_num, handles, all_pages, page_groups, grouped, pages_per_file,
                    start_idx, file_pages_list, pdf_data, result_pdfs, degraded >>
    /\ idle_fn

(* one iteration of the page loop: load, render, open as image, invert,
   append *)
rasterize_page ==
    /\ pc = "page"
    /\ page_num < pdf_paths[doc_i].pages
    /\ \E raised \in BOOLEAN :
          /\ raised => (invert_colors /\ degraded < MaxDegraded)
          /\ degraded' = IF raised THEN degraded + 1 ELSE degraded
          /\ LET image == get_pixmap(doc_i, page_num, pdf_paths[doc_i].size)
             IN  all_pages' = Append(all_pages,
                                     IF invert_colors
                                     THEN invert_image_colors(image, raised)
                                     ELSE image)
    /\ page_num' = page_num + 1
    /\ UNCHANGED << pc, pdf_paths, invert_colors, merge_files, layout_3x2, doc_i,
                    handles, page_groups, grouped, pages_per_file, start_idx,
                    file_pages_list, pdf_data, result_pdfs, result, failures >>
    /\ idle_fn

rasterize_page_raises ==
    /\ pc = "page"
    /\ page_num < pdf_paths[doc_i].pages
    /\ handler("rasterize")
    /\ UNCHANGED << pdf_paths, invert_colors, merge_files, layout_3x2, doc_i,
                    page_num, handles, all_pages, page_groups, grouped, pages_per_file,
                    start_idx, file_pages_list, pdf_data, result_pdfs, degraded >>
    /\ idle_fn

(* doc.close(), then the next document or, after the last one, step 2:
   in grid mode page_groups is built from all_pages *)
close_doc ==
    /\ pc = "page"
    /\ page_num = pdf_paths[doc_i].pages
    /\ handles' = handles \ { [doc |-> doc_i, use |-> "rasterize"] }
    /\ doc_i' = doc_i + 1
    /\ IF doc_i < Len(pdf_paths)
       THEN /\ pc' = "open"
            /\ UNCHANGED << page_groups, grouped >>
       ELSE /\ pc' = IF merge_files THEN "merge" ELSE "count"
            /\ page_groups' = IF layout_3x2 THEN chunk6(all_pages) ELSE page_groups
            /\ grouped' = IF layout_3x2 THEN all_pages ELSE grouped
    /\ UNCHANGED << pdf_paths, invert_colors, merge_files, layout_3x2, page_num,
                    all_pages, pages_per_file, start_idx, file_pages_list,
                    pdf_data, result_pdfs, result, failures, degraded >>
    /\ idle_fn

(* merge_files: one document from the whole sequence, and return *)
compose_merged ==
    /\ pc = "merge"
    /\ \E raised \in BOOLEAN :
          /\ pdf_data' = IF layout_3x2
                         THEN create_3x2_landscape_pdf(page_groups, raised)
                         ELSE create_original_layout_pdf(all_pages, raised)
          /\ failures' = IF raised THEN failures \cup {"serialize"} ELSE failures
    /\ file_pages_list' = all_pages
    /\ result' = merged_result(pdf_data')
    /\ pc' = "done"
    /\ UNCHANGED << pdf_paths, invert_colors, merge_files, layout_3x2, doc_i,
                    page_num, handles, all_pages, page_groups, grouped, pages_per_file,
                    start_idx, result_pdfs, degraded >>
    /\ idle_fn

(* result_pdfs = []; pages_per_file = [len(fitz.open(path)) for path in
   pdf_paths]; start_idx = 0.  The handles opened here are never closed. *)
count_pages ==
    /\ pc = "count"
    /\ result_pdfs' = << >>
    /\ pages_per_file' = [k \in 1..Len(pdf_paths) |-> pdf_paths[k].pages]
    /\ handles' = handles \cup { [doc |-> k, use |-> "count"] : k \in 1..Len(pdf_paths) }
    /\ start_idx' = 0
    /\ doc_i' = 1
    /\ pc' = "units"
    /\ UNCHANGED << pdf_paths, invert_colors, merge_files, layout_3x2, page_num,
                    all_pages, page_groups, grouped, file_pages_list, pdf_data,
                    result, failures, degraded >>
    /\ idle_fn

count_pages_raises ==
    /\ pc = "count"
    /\ handler("reopen")
    /\ UNCHANGED << pdf_paths, invert_colors, merge_files, layout_3x2, doc_i,
                    page_num, handles, all_pages, page_groups, grouped, pages_per_file,
                    start_idx, file_pages_list, pdf_data, result_pdfs, degraded >>
    /\ idle_fn

(* one iteration of "for file_pages in pages_per_file" *)
compose_unit ==
    /\ pc = "units"
    /\ doc_i <= Len(pages_per_file)
    /\ LET end_idx == start_idx + pages_per_file[doc_i]
           list    == Slice(all_pages, start_idx, end_idx)
       IN  /\ file_pages_list' = list
           /\ page_groups' = IF layout_3x2 THEN chunk6(list) ELSE page_groups
           /\ grouped' = IF layout_3x2 THEN list ELSE grouped
           /\ \E raised \in BOOLEAN :
                 /\ pdf_data' = IF layout_3x2
                                THEN create_3x2_landscape_pdf(page_groups', raised)
                                ELSE create_original_layout_pdf(list, raised)
                 /\ failures' = IF raised THEN failures \cup {"serialize"}
                                ELSE failures
           /\ result_pdfs' = append_unit(result_pdfs, pdf_data')
           /\ start_idx' = end_idx
    /\ doc_i' = doc_i + 1
    /\ UNCHANGED << pc, pdf_paths, invert_colors, merge_files, layout_3x2,
                    page_num, handles, all_pages, pages_per_file, result,
                    degraded >>
    /\ idle_fn

(* return result_pdfs *)
return_units ==
    /\ pc = "units"
    /\ doc_i > Len(pages_per_file)
    /\ result' = result_pdfs
    /\ pc' = "done"
    /\ UNCHANGED << pdf_paths, invert_colors, merge_files, layout_3x2, doc_i,
                    page_num, handles, all_pages, page_groups, grouped, pages_per_file,
                    start_idx, file_pages_list, pdf_data, result_pdfs, failures,
                    degraded >>
    /\ idle_fn

Next ==
    \/ process_pdfs
    \/ open_doc
    \/ open_doc_raises
    \/ rasterize_page
    \/ rasterize_page_raises
    \/ close_doc
    \/ compose_merged
    \/ count_pages
    \/ count_pages_raises
    \/ compose_unit
    \/ return_units

Spec == Init /\ [][Next]_vars

----------------------------------------------------------------------------
(* Calls of invert_image_colors on bitmaps held in memory.  No statement of
   the try block raises for such a bitmap, and no statement of the function
   writes to the object it was given: convert and ImageOps.invert both
   return new images. *)

MaxPixels == 2

ChannelValues == {0, 100, 255}

Pixels(mode) == IF mode = "L" THEN [1..1 -> ChannelValues]
                ELSE [1..3 -> ChannelValues]

Bitmaps == UNION { [doc : {0}, page : {0}, width : {n}, height : {1},
                    mode : {m}, pixels : [1..n -> Pixels(m)]] :
                   n \in 1..MaxPixels, m \in {"RGB", "L"} }

idle_pipe == /\ pc = "idle" /\ UNCHANGED pipeVars /\ UNCHANGED appVars

InitInvert ==
    /\ InitPipeIdle
    /\ InitAppIdle
    /\ fn_pc = "ready"
    /\ fn_image \in Bitmaps
    /\ fn_box = <<0, 0>>
    /\ fn_out = NoImage /\ fn_out2 = NoImage

invert_call ==
    /\ fn_pc = "ready"
    /\ fn_out' = invert_image_colors(fn_image, FALSE)
    /\ fn_pc' = "inverted"
    /\ UNCHANGED << fn_image, fn_box, fn_out2 >>
    /\ idle_pipe

invert_again ==
    /\ fn_pc = "inverted"
    /\ fn_out2' = invert_image_colors(fn_out, FALSE)
    /\ fn_pc' = "twice"
    /\ UNCHANGED << fn_image, fn_box, fn_out >>
    /\ idle_pipe

NextInvert == invert_call \/ invert_again

SpecInvert == InitInvert /\ [][NextInvert]_vars

----------------------------------------------------------------------------
(* Calls of resize_image_to_fit.  Boxes are the two rectangles the composers
   use (grid cell minus margin, A4 page minus margin) and a small rectangle
   of 600/254 pt each side. *)

ImageSides == {1, 3, 10, 401, 1000, 2381, 3368}

Boxes == { <<101840, 45320>>, <<141040, 203680>>, <<600, 600>> }

InitScale ==
    /\ InitPipeIdle
    /\ InitAppIdle
    /\ fn_pc = "ready"
    /\ fn_image \in [doc : {0}, page : {0}, width : ImageSides,
                     height : ImageSides, mode : {"RGB"},
                     pixels : { << <<255, 255, 255>> >> }]
    /\ fn_box \in Boxes
    /\ fn_out = NoImage /\ fn_out2 = NoImage

resize_call ==
    /\ fn_pc = "ready"
    /\ fn_out' = resize_image_to_fit(fn_image, fn_box[1], fn_box[2])
    /\ fn_pc' = "resized"
    /\ UNCHANGED << fn_image, fn_box, fn_out2 >>
    /\ idle_pipe

NextScale == resize_call

SpecScale == InitScale /\ [][NextScale]_vars

----------------------------------------------------------------------------
(* The Process handler of app.main (src/app.py, lines 58-102).  A temporary
   file is named by the index of its upload.  os.unlink is taken to succeed.
   st.rerun() stops the script run by raising; nothing after it in the
   handler is executed. *)

Uploads == { [valid |-> TRUE, pages |-> d.pages, size |-> d.size] : d \in Docs }
               \cup { [valid |-> FALSE, pages |-> 0, size |-> <<1, 1000>>] }

UploadLists == UNION { [1..n -> Uploads] : n \in 1..MaxDocs }

InitApp ==
    /\ InitPipeIdle
    /\ InitAppIdle
    /\ fn_pc = "none" /\ fn_image = NoImage /\ fn_box = <<0, 0>>
    /\ fn_out = NoImage /\ fn_out2 = NoImage

app_pipe_idle == /\ UNCHANGED pipeVars /\ UNCHANGED fnVars

(* the click: processor = PDFProcessor(); temp_files = [] *)
click_process ==
    /\ app_pc = "idle"
    /\ \E files \in UploadLists :
          /\ TotalPages(files) <= MaxTotalPages
          /\ uploaded_files' = files
    /\ temp_files' = << >>
    /\ upload_i' = 1
    /\ app_pc' = "saving"
    /\ UNCHANGED << disk, app_exit, processed_pdfs >>
    /\ app_pipe_idle

(* a valid upload is written to a NamedTemporaryFile(delete=False) and its
   name is appended to temp_files *)
save_upload ==
    /\ app_pc = "saving"
    /\ upload_i <= Len(uploaded_files)
    /\ uploaded_files[upload_i].valid
    /\ disk' = disk \cup {upload_i}
    /\ temp_files' = Append(temp_files, upload_i)
    /\ upload_i' = upload_i + 1
    /\ UNCHANGED << app_pc, uploaded_files, app_exit, processed_pdfs >>
    /\ app_pipe_idle

(* NamedTemporaryFile raises before a file is created: the handler of
   line 101 reports the error *)
save_upload_raises ==
    /\ app_pc = "saving"
    /\ upload_i <= Len(uploaded_files)
    /\ uploaded_files[upload_i].valid
    /\ app_exit' = "exception"
    /\ app_pc' = "ended"
    /\ UNCHANGED << uploaded_files, upload_i, temp_files, disk, processed_pdfs >>
    /\ app_pipe_idle

(* validate_pdf_file is false: st.error and return *)
invalid_upload ==
    /\ app_pc = "saving"
    /\ upload_i <= Len(uploaded_files)
    /\ ~uploaded_files[upload_i].valid
    /\ app_exit' = "invalid"
    /\ app_pc' = "ended"
    /\ UNCHANGED << uploaded_files, upload_i, temp_files, disk, processed_pdfs >>
    /\ app_pipe_idle

(* result = processor.process_pdfs(temp_files, ...): the call *)
call_process_pdfs ==
    /\ app_pc = "saving"
    /\ upload_i > Len(uploaded_files)
    /\ pc = "idle"
    /\ \E inv \in BOOLEAN, merge \in BOOLEAN, grid \in BOOLEAN :
          /\ invert_colors' = inv
          /\ merge_files' = merge
          /\ layout_3x2' = grid
    /\ pdf_paths' = [k \in 1..Len(temp_files) |->
                        [pages |-> uploaded_files[temp_files[k]].pages,
                         size |-> uploaded_files[temp_files[k]].size]]
    /\ all_pages' = << >>
    /\ doc_i' = 1
    /\ pc' = "open"
    /\ app_pc' = "processing"
    /\ UNCHANGED << page_num, handles, page_groups, grouped, pages_per_file,
                    start_idx, file_pages_list, pdf_data, result_pdfs, result,
                    failures, degraded >>
    /\ UNCHANGED << uploaded_files, upload_i, temp_files, disk, app_exit,
                    processed_pdfs >>
    /\ UNCHANGED fnVars

(* process_pdfs has returned.  A non-empty result is stored and st.rerun()
   ends the run; an empty one is reported and the cleanup loop unlinks every
   file of temp_files. *)
after_process ==
    /\ app_pc = "processing"
    /\ pc = "done"
    /\ IF result # << >>
       THEN /\ processed_pdfs' = result
            /\ app_exit' = "rerun"
            /\ UNCHANGED disk
       ELSE /\ disk' = disk \ { temp_files[k] : k \in 1..Len(temp_files) }
            /\ app_exit' = "empty"
            /\ UNCHANGED processed_pdfs
    /\ app_pc' = "ended"
    /\ UNCHANGED << uploaded_files, upload_i, temp_files >>
    /\ app_pipe_idle

NextApp ==
    \/ click_process
    \/ save_upload
    \/ save_upload_raises
    \/ invalid_upload
    \/ call_process_pdfs
    \/ open_doc
    \/ open_doc_raises
    \/ rasterize_page
    \/ rasterize_page_raises
    \/ close_doc
    \/ compose_merged
    \/ count_pages
    \/ count_pages_raises
    \/ compose_unit
    \/ return_units
    \/ after_process

SpecApp == InitApp /\ [][NextApp]_vars

----------------------------------------------------------------------------
(* Properties *)

Prov(image) == << image.doc, image.page >>

(* the provenance of the images of a document, in drawing order *)
ProvOfDoc(doc) ==
    LET draws == Flatten(doc.pages)
    IN  [k \in 1..Len(draws) |-> Prov(draws[k].image)]

(* the pages of the inputs, in input order and then in page order *)
Expected(paths) ==
    Flatten([d \in 1..Len(paths) |-> [p \in 1..paths[d].pages |-> << d, p - 1 >>]])

AfterLoop ==
    \/ pc \in {"merge", "count", "units"}
    \/ pc = "done" /\ failures \cap {"open", "rasterize"} = {}

(* C1: whenever an unrecoverable failure (open, rasterize, serialize)
   happened during a run of process_pdfs, the returned list is empty. *)
C1_FailureGivesEmptyResult ==
    (pc = "done" /\ failures # {}) => result = << >>

(* C2: a failure-free run over N >= 1 inputs with at least one page in total
   returns exactly 1 document when merge_files is set and exactly N
   documents otherwise, in both layouts. *)
C2_UnitCount ==
    (pc = "done" /\ failures = {} /\ TotalPages(pdf_paths) >= 1)
        => Len(result) = IF merge_files THEN 1 ELSE Len(pdf_paths)

C2_Witness ==
    /\ pc = "done" /\ failures = {} /\ ~merge_files
    /\ Len(pdf_paths) = 2 /\ TotalPages(pdf_paths) >= 1
    /\ Len(result) = 2

(* C3: after the rasterization loop all_pages has length p1+...+pN and its
   j-th element is the bitmap of the j-th page of the inputs taken in input
   order and then page order; and the images of the returned documents, read
   in output order, are that same sequence. *)
C3_OrderPreserved ==
    /\ AfterLoop =>
          /\ Len(all_pages) = TotalPages(pdf_paths)
          /\ \A j \in 1..Len(all_pages) :
                LET e   == Expected(pdf_paths)[j]
                    raw == get_pixmap(e[1], e[2], pdf_paths[e[1]].size)
                IN  \/ all_pages[j] = raw
                    \/ invert_colors /\ all_pages[j] = ImageOps_invert(raw)
    /\ (pc = "done" /\ result # << >>) =>
          Flatten([k \in 1..Len(result) |-> ProvOfDoc(result[k])])
              = [j \in 1..Len(all_pages) |-> Prov(all_pages[j])]

(* C4: without merge_files the k-th returned document holds exactly the
   bitmaps of the k-th input, in page order; with merge_files the single
   document holds the entire combined sequence. *)
C4_UnitBoundaries ==
    pc = "done" =>
        IF merge_files
        THEN result # << >> =>
                /\ Len(result) = 1
                /\ ProvOfDoc(result[1]) = Expected(pdf_paths)
        ELSE \A k \in 1..Len(result) :
                ProvOfDoc(result[k])
                    = [p \in 1..pdf_paths[k].pages |-> << k, p - 1 >>]

(* C5: in grid mode a sequence of length L is split into exactly ceil(L/6)
   consecutive groups, each of size 6 except the last of size L mod 6 (or 6),
   none empty or larger than 6, and the document composed from them has one
   page per group holding that group's images. *)
C5_GridChunking ==
    layout_3x2 =>
        LET L == Len(grouped)
            G == page_groups
        IN  /\ Len(G) * 6 >= L
            /\ (Len(G) - 1) * 6 < L
            /\ \A g \in 1..Len(G) :
                  /\ Len(G[g]) = IF g < Len(G) \/ L % 6 = 0 THEN 6 ELSE L % 6
                  /\ Len(G[g]) >= 1 /\ Len(G[g]) <= 6
            /\ Flatten(G) = grouped
            /\ Truthy(pdf_data) =>
                  /\ Len(pdf_data.pages) = Len(G)
                  /\ \A g \in 1..Len(G) :
                        /\ Len(pdf_data.pages[g]) = Len(G[g])
                        /\ \A k \in 1..Len(G[g]) :
                              Prov(pdf_data.pages[g][k].image) = Prov(G[g][k])

C5_Witness ==
    /\ pc = "done" /\ layout_3x2 /\ merge_files
    /\ Len(grouped) = 7
    /\ Len(result) = 1
    /\ Len(result[1].pages) = 2
    /\ Len(result[1].pages[1]) = 6
    /\ Len(result[1].pages[2]) = 1

(* C6: when process_pdfs has returned, normally or through its exception
   handler, no handle opened for rasterization is still open. *)
C6_HandlesClosed ==
    pc = "done" => \A h \in handles : h.use # "rasterize"

(* the grid cell of index i on the landscape page, rows counted from the top *)
CellWidth == A4_height \div 2
CellHeight == A4_width \div 3
CellLeft(i) == (i % 2) * CellWidth
CellBottom(i) == A4_width - ((i \div 2) + 1) * CellHeight

(* the bitmap a drawn image was scaled from *)
Source(draw) ==
    CHOOSE b \in { all_pages[j] : j \in 1..Len(all_pages) } :
        Prov(b) = Prov(draw.image)

(* C7 as stated: in grid mode the bitmap of index i of a group is drawn in
   the cell of column i mod 2 and row i div 2, fitted to the cell minus a
   10-unit margin and centred in the cell (left gap = right gap, bottom gap
   = top gap). *)
C7_Centered ==
    (pc = "done" /\ layout_3x2) =>
        \A n \in 1..Len(result) : \A g \in 1..Len(result[n].pages) :
            \A k \in 1..Len(result[n].pages[g]) :
                LET d == result[n].pages[g][k]
                    i == k - 1
                IN  /\ d.width * Den <= CellWidth - 2 * 10 * Den
                    /\ d.height * Den <= CellHeight - 2 * 10 * Den
                    /\ d.x - CellLeft(i)
                           = CellLeft(i) + CellWidth - (d.x + d.width * Den)
                    /\ d.y - CellBottom(i)
                           = CellBottom(i) + CellHeight - (d.y + d.height * Den)

(* C7 amended: in grid mode the bitmap of index i of a group is drawn in the
   cell of column i mod 2 and row i div 2 (rows from the top), at the size
   resize_image_to_fit returns for the cell minus a 10-unit margin on each
   side, with its lower-left corner 10 units right of the cell's left edge
   and 10 units above the cell's bottom edge; it is not centred. *)
C7_Anchored ==
    (pc = "done" /\ layout_3x2) =>
        \A n \in 1..Len(result) : \A g \in 1..Len(result[n].pages) :
            \A k \in 1..Len(result[n].pages[g]) :
                LET d == result[n].pages[g][k]
                    i == k - 1
                    r == resize_image_to_fit(Source(d),
                                             CellWidth - 2 * 10 * Den,
                                             CellHeight - 2 * 10 * Den)
                IN  /\ i >= 0 /\ i <= 5
                    /\ d.x = CellLeft(i) + 10 * Den
                    /\ d.y = CellBottom(i) + 10 * Den
                    /\ d.width = r.width /\ d.height = r.height

C7_Witness ==
    /\ pc = "done" /\ layout_3x2
    /\ \E n \in 1..Len(result) : \E g \in 1..Len(result[n].pages) :
          /\ Len(result[n].pages[g]) = 6
          /\ result[n].pages[g][6].x = CellWidth + 10 * Den
          /\ result[n].pages[g][6].y = 10 * Den

(* the exact floor of width*s and height*s for s = min(w/width, h/height),
   the box (w, h) being in 1/254 pt *)
FloorScaled(image, box) ==
    IF box[1] * image.height <= box[2] * image.width
    THEN << box[1] \div Den, (image.height * box[1]) \div (image.width * Den) >>
    ELSE << (image.width * box[2]) \div (image.height * Den), box[2] \div Den >>

(* C8: resize_image_to_fit returns a bitmap of size (floor(W*s), floor(H*s))
   with s = min(w/W, h/H), and when w/W <= 1 and h/H <= 1 the result is no
   wider than w and no higher than h. *)
C8_ResizeFits ==
    fn_pc = "resized" =>
        /\ << fn_out.width, fn_out.height >> = FloorScaled(fn_image, fn_box)
        /\ (fn_box[1] <= fn_image.width * Den /\ fn_box[2] <= fn_image.height * Den)
              => /\ fn_out.width * Den <= fn_box[1]
                 /\ fn_out.height * Den <= fn_box[2]

C9_State ==
    (fn_pc \in {"inverted", "twice"} /\ fn_image.mode = "RGB") =>
        /\ fn_out.mode = "RGB"
        /\ fn_out.width = fn_image.width /\ fn_out.height = fn_image.height
        /\ Len(fn_out.pixels) = Len(fn_image.pixels)
        /\ \A k \in 1..Len(fn_image.pixels) : \A c \in 1..3 :
              fn_out.pixels[k][c] = 255 - fn_image.pixels[k][c]
        /\ fn_pc = "twice" => fn_out2 = fn_image

(* C9: for an RGB bitmap invert_image_colors maps every channel value v to
   255 - v, inverting twice gives the bitmap back pixel for pixel, and the
   bitmap passed in is not modified by the call. *)
C9_InvertInvolution ==
    [] C9_State /\ [][fn_image' = fn_image]_vars

C9_Witness ==
    /\ fn_pc = "twice" /\ fn_image.mode = "RGB"
    /\ Len(fn_image.pixels) = 2
    /\ fn_image.pixels[1] = <<0, 100, 255>>
    /\ fn_out.pixels[1] = <<255, 155, 0>>
    /\ fn_out2 = fn_image

(* C10: every image the composers draw has width and height > 0 and lies
   within its target rectangle: the cell minus margin in grid mode, the page
   minus margin otherwise. *)
C10_DrawnImageFits ==
    pc = "done" =>
        \A n \in 1..Len(result) : \A g \in 1..Len(result[n].pages) :
            \A k \in 1..Len(result[n].pages[g]) :
                LET d == result[n].pages[g][k]
                    w == IF layout_3x2 THEN CellWidth - 2 * 10 * Den
                         ELSE A4_width - 2 * 20 * Den
                    h == IF layout_3x2 THEN CellHeight - 2 * 10 * Den
                         ELSE A4_height - 2 * 20 * Den
                IN  /\ d.width > 0 /\ d.height > 0
                    /\ d.width * Den <= w
                    /\ d.height * Den <= h

(* C11: when the Process handler of app.main has ended, on any exit path
   (rerun after success, empty result, invalid upload, exception), every
   temporary file created for the uploads has been deleted. *)
C11_TempFilesDeleted ==
    app_pc = "ended" => disk = {}

====
